---------------------------- MODULE Spec2Model ----------------------------
(***************************************************************************)
(* A model of the density-fitting engine of gpu4pyscf (gpu4pyscf/df/df.py  *)
(* and gpu4pyscf/df/df_jk.py): the blocked iterator DF.loop, the cache of  *)
(* range-separated DF objects (_rsh_df), DF.build with its metric          *)
(* factorization, cholesky_eri_gpu with its choice of memory tier, the     *)
(* packed pair index, DF.get_blksize, the Coulomb contraction of           *)
(* df_jk.get_jk, the two threads of df_jk.init_workflow, and the raw block *)
(* of one group pair in cholesky_eri_gpu.                                  *)
(*                                                                         *)
(* Each component keeps its state in one record variable whose fields      *)
(* carry the names of the source; each component has its own               *)
(* specification (SpecLoop, SpecCache, SpecBuild, SpecPair, SpecBlk,       *)
(* SpecJk, SpecWf, SpecSr).                                                *)
(***************************************************************************)
EXTENDS Integers, Sequences, FiniteSets, TLC

VARIABLES loop, cache, build, pair, blk, jk, wf, sr

vars == <<loop, cache, build, pair, blk, jk, wf, sr>>

Min(a, b) == IF a < b THEN a ELSE b

Max(a, b) == IF a > b THEN a ELSE b

RECURSIVE SumSeq(_)
SumSeq(s) == IF s = <<>> THEN 0 ELSE Head(s) + SumSeq(Tail(s))

(***************************************************************************)
(* A component that a specification does not run stays in its idle state.  *)
(***************************************************************************)
IdleLoop == [pc |-> "idle"]

IdleCache == [pc |-> "idle"]

IdleBuild == [pc |-> "idle"]

IdlePair == [pc |-> "idle"]

IdleBlk == [pc |-> "idle"]

IdleJk == [pc |-> "idle"]

IdleWf == [pc |-> "idle"]

IdleSr == [pc |-> "idle"]

(***************************************************************************)
(*                              DF.loop                                    *)
(*                                                                         *)
(* loop.cderi_sparse is the tier of self._cderi: "gpu" for a cupy.ndarray, *)
(* "host" for a numpy.ndarray on pinned memory.  A device buffer is a      *)
(* record [id, addr, lo, hi]: the array object, the device memory it      *)
(* occupies, and the rows [lo, hi) of the tensor it holds (or is being     *)
(* filled with).  Buffer 0 at address 0 is the tensor itself: a block of a *)
(* device-resident tensor is a view of it.  loop.inflight is the set of    *)
(* buffers that a copy queued on data_stream has not finished writing.     *)
(***************************************************************************)
MaxNaux == 7

MaxBlk == 3

MaxAddr == 3

NoBuf == [id |-> -1, addr |-> -1, lo |-> 0, hi |-> 0]

\* lines 161-162: cupy.asarray and cupy.empty take memory from the pool; it
\* may have been used by a released array, never by one of the live arrays.
FreeAddrsAny(live) == 1..MaxAddr

FreeAddrs(live) == (1..MaxAddr) \ live

\* lib.prange(0, naux, blksize): the item that starts at row i.
PrangeItem(i, naux, blksize) == <<i, Min(i + blksize, naux)>>

\* line 155: the end of the block after the current one.
PrefetchEndUnclamped(naux, p1, blksize) == p1 + blksize

PrefetchEnd(naux, p1, blksize) == Min(naux, p1 + blksize)

\* line 164: whether the iteration queues buf_prefetch.set(...) on
\* data_stream.
PrefetchLaunchedNever(host, p1, p2) == FALSE

PrefetchLaunched(host, p1, p2) == host /\ p1 < p2

\* lines 177-178: the buffer the next iteration exposes.
NextBufKeep(buf, buf_prefetch) == buf

NextBuf(buf, buf_prefetch) == IF buf_prefetch # NoBuf THEN buf_prefetch ELSE buf

\* lines 174-175: compute_stream.wait_event(stop_event) and
\* Device().synchronize() return once no copy is in flight.
SynchronizedNoWait(inflight) == TRUE

Synchronized(inflight) == inflight = {}

InitLoop ==
    /\ \E naux \in 0..MaxNaux, blksize \in 1..MaxBlk, tier \in {"gpu", "host"},
          unpack \in BOOLEAN :
         loop = [pc |-> "top", naux |-> naux, blksize |-> blksize,
                 cderi_sparse |-> tier, unpack |-> unpack,
                 next |-> 0, p0 |-> 0, p1 |-> 0, p2 |-> 0,
                 buf |-> NoBuf, buf_prefetch |-> NoBuf, nbuf |-> 0,
                 inflight |-> {}, stop_event |-> FALSE,
                 launched |-> <<>>, yielded |-> <<>>]
    /\ cache = IdleCache /\ build = IdleBuild /\ pair = IdlePair /\ blk = IdleBlk
    /\ jk = IdleJk /\ wf = IdleWf /\ sr = IdleSr

\* lines 154-166: take the next item of prange, stage the current block and
\* launch the prefetch of the next one on data_stream.
LoopIter ==
    /\ loop.pc = "top"
    /\ loop.next < loop.naux
    /\ LET item == PrangeItem(loop.next, loop.naux, loop.blksize)
           p0 == item[1]
           p1 == item[2]
           p2 == PrefetchEnd(loop.naux, p1, loop.blksize)
           host == loop.cderi_sparse = "host"
           first == host /\ loop.buf_prefetch = NoBuf
           nbuf1 == IF first THEN loop.nbuf + 1 ELSE loop.nbuf
           \* lines 164-165: the asynchronous copy of rows [p1, p2)
           copy == PrefetchLaunched(host, p1, p2)
       IN  \E a0 \in (IF first THEN FreeAddrs({}) ELSE {loop.buf.addr}) :
           \E a1 \in (IF host THEN FreeAddrs({a0}) ELSE {NoBuf.addr}) :
             LET \* line 157 (a view of the tensor) or line 161 (a synchronous copy)
                 buf == IF ~host THEN [id |-> 0, addr |-> 0, lo |-> p0, hi |-> p1]
                        ELSE IF first
                        THEN [id |-> loop.nbuf + 1, addr |-> a0, lo |-> p0, hi |-> p1]
                        ELSE loop.buf
                 \* line 162: a new device buffer for the next block
                 pre == IF host THEN [id |-> nbuf1 + 1, addr |-> a1, lo |-> p1, hi |-> p2]
                        ELSE loop.buf_prefetch
             IN  loop' = [loop EXCEPT
                            !.pc = "staged", !.p0 = p0, !.p1 = p1, !.p2 = p2,
                            !.buf = buf, !.buf_prefetch = pre,
                            !.nbuf = IF host THEN nbuf1 + 1 ELSE nbuf1,
                            !.inflight = IF copy THEN @ \cup {pre} ELSE @,
                            !.stop_event = TRUE,
                            !.launched = IF copy
                                         THEN Append(@, [lo |-> p1, hi |-> p2,
                                                         into |-> pre.id,
                                                         after |-> Len(loop.yielded)])
                                         ELSE @]
    /\ UNCHANGED <<cache, build, pair, blk, jk, wf, sr>>

\* lines 167-173: unpack the block (a [p1-p0, nao, nao] array filled from buf)
\* and yield it with the packed block.
LoopYield ==
    /\ loop.pc = "staged"
    /\ loop' = [loop EXCEPT !.pc = "yielded",
                            !.yielded = Append(@, [lo |-> loop.buf.lo, hi |-> loop.buf.hi,
                                                   id |-> loop.buf.id,
                                                   rows |-> IF loop.unpack
                                                            THEN loop.p1 - loop.p0
                                                            ELSE 0,
                                                   copying |-> loop.inflight # {},
                                                   target |-> loop.buf_prefetch.id])]
    /\ UNCHANGED <<cache, build, pair, blk, jk, wf, sr>>

\* The data-transfer channel finishes a copy launched at line 165.
CopyDone ==
    /\ loop.pc \in {"top", "staged", "yielded"}
    /\ \E c \in loop.inflight : loop' = [loop EXCEPT !.inflight = @ \ {c}]
    /\ UNCHANGED <<cache, build, pair, blk, jk, wf, sr>>

\* lines 174-178: the consumer asks for the next block; the compute stream
\* waits for stop_event and the device synchronizes, so the generator goes on
\* only once the copy is over; then the prefetched buffer becomes the block.
LoopResume ==
    /\ loop.pc = "yielded"
    /\ Synchronized(loop.inflight)
    /\ loop' = [loop EXCEPT !.pc = "top", !.next = loop.p1, !.stop_event = FALSE,
                            !.buf = NextBuf(loop.buf, loop.buf_prefetch)]
    /\ UNCHANGED <<cache, build, pair, blk, jk, wf, sr>>

\* line 154: prange is exhausted and the generator returns.
LoopEnd ==
    /\ loop.pc = "top"
    /\ loop.next >= loop.naux
    /\ loop' = [loop EXCEPT !.pc = "done"]
    /\ UNCHANGED <<cache, build, pair, blk, jk, wf, sr>>

NextLoop == LoopIter \/ LoopYield \/ CopyDone \/ LoopResume \/ LoopEnd

SpecLoop == InitLoop /\ [][NextLoop]_vars

CeilDiv(a, b) == (a + b - 1) \div b

(***************************************************************************)
(* C1: for every naux >= 0 and blksize >= 1, the k-th block DF.loop yields *)
(* holds exactly the rows [(k-1)*blksize, min(k*blksize, naux)) (k from    *)
(* 1), so the blocks are in increasing order without gap or overlap, every *)
(* block but possibly the last has blksize rows, and the generator ends    *)
(* after ceil(naux/blksize) blocks.                                        *)
(***************************************************************************)
C1_LoopCoversRange ==
    loop.pc # "idle" =>
      /\ \A k \in 1..Len(loop.yielded) :
            /\ loop.yielded[k].lo = (k - 1) * loop.blksize
            /\ loop.yielded[k].hi = Min(k * loop.blksize, loop.naux)
            /\ loop.yielded[k].lo < loop.yielded[k].hi
            /\ (loop.unpack =>
                   loop.yielded[k].rows = loop.yielded[k].hi - loop.yielded[k].lo)
            /\ (k < Len(loop.yielded) =>
                   loop.yielded[k].hi - loop.yielded[k].lo = loop.blksize)
      /\ Len(loop.yielded) <= CeilDiv(loop.naux, loop.blksize)
      /\ (loop.pc = "done" => Len(loop.yielded) = CeilDiv(loop.naux, loop.blksize))

\* A host-resident tensor of 7 rows streamed in blocks of 2: sizes 2, 2, 2, 1.
C1_Witness ==
    /\ loop.pc = "done"
    /\ loop.cderi_sparse = "host"
    /\ loop.naux = 7 /\ loop.blksize = 2
    /\ Len(loop.yielded) = 4
    /\ loop.yielded[4].hi - loop.yielded[4].lo = 1

(***************************************************************************)
(* C12: while DF.loop streams a host-resident tensor, the device buffer    *)
(* that receives the asynchronous prefetch of the next block is in every   *)
(* iteration another array, at another place of device memory, than the    *)
(* buffer holding the block exposed to the consumer.                       *)
(***************************************************************************)
C12_PrefetchNeverAliases ==
    loop.pc # "idle" /\ loop.cderi_sparse = "host" =>
      /\ (loop.pc \in {"staged", "yielded"} =>
             /\ loop.buf_prefetch.id # loop.buf.id
             /\ loop.buf_prefetch.addr # loop.buf.addr)
      /\ \A k \in 1..Len(loop.yielded) : loop.yielded[k].target # loop.yielded[k].id

\* The third block of a host-resident tensor is exposed while the fourth
\* buffer allocated, which reuses released memory, is being filled.
C12_Witness ==
    /\ loop.pc = "yielded"
    /\ loop.cderi_sparse = "host"
    /\ Len(loop.yielded) = 3
    /\ loop.nbuf = 4
    /\ loop.buf_prefetch \in loop.inflight
    /\ loop.buf.addr = 2 /\ loop.buf_prefetch.addr = 1

(***************************************************************************)
(* C13: in DF.loop over a host-resident tensor the iterator goes on to the *)
(* next block only after the copy recorded by stop_event is over, so in no *)
(* interleaving of the compute channel and the data-transfer channel is a  *)
(* block staged or exposed to the consumer while a copy into its buffer is *)
(* still in flight.                                                        *)
(***************************************************************************)
C13_NoExposureDuringCopy ==
    loop.pc # "idle" /\ loop.cderi_sparse = "host" =>
      /\ (loop.pc \in {"top", "done"} => loop.inflight = {})
      /\ (loop.pc \in {"staged", "yielded"} =>
             \A c \in loop.inflight : c.id # loop.buf.id /\ c.addr # loop.buf.addr)

\* The second block is exposed in the buffer that the first iteration
\* prefetched into, while the copy of the third block is in flight.
C13_Witness ==
    /\ loop.pc = "yielded"
    /\ loop.cderi_sparse = "host"
    /\ Len(loop.yielded) = 2
    /\ loop.yielded[1].target = loop.buf.id
    /\ loop.yielded[1].copying
    /\ loop.inflight = {loop.buf_prefetch}

(***************************************************************************)
(* C21: for the same naux and block size, DF.loop over a host-resident     *)
(* tensor yields the same sequence of blocks as over a device-resident     *)
(* one: the block exposed at iteration k holds exactly the rows            *)
(* [p0_k, p1_k); over a host-resident tensor the first block is staged     *)
(* synchronously and every later block is the buffer that the previous     *)
(* iteration prefetched these rows into; no prefetch is issued after the   *)
(* last block and no transfer reads rows at or beyond naux.                *)
(***************************************************************************)
C21_HostYieldsSameBlocks ==
    loop.pc # "idle" =>
      /\ \A k \in 1..Len(loop.yielded) :
            /\ loop.yielded[k].lo = (k - 1) * loop.blksize
            /\ loop.yielded[k].hi = Min(k * loop.blksize, loop.naux)
      /\ (loop.cderi_sparse = "gpu" =>
             /\ loop.launched = <<>>
             /\ \A k \in 1..Len(loop.yielded) : loop.yielded[k].id = 0)
      /\ (loop.cderi_sparse = "host" =>
             /\ \A k \in 1..Len(loop.yielded) :
                   IF k = 1
                   THEN \A j \in 1..Len(loop.launched) :
                           loop.launched[j].into # loop.yielded[1].id
                   ELSE /\ Len(loop.launched) >= k - 1
                        /\ loop.launched[k - 1].into = loop.yielded[k].id
                        /\ loop.launched[k - 1].lo = loop.yielded[k].lo
                        /\ loop.launched[k - 1].hi = loop.yielded[k].hi
                        /\ loop.yielded[k - 1].target = loop.yielded[k].id
             /\ \A j \in 1..Len(loop.launched) :
                   /\ loop.launched[j].lo < loop.launched[j].hi
                   /\ loop.launched[j].hi <= loop.naux
             /\ Len(loop.launched) <= Len(loop.yielded) + 1
             /\ (loop.pc = "done" /\ loop.naux > 0 =>
                    Len(loop.launched) = Len(loop.yielded) - 1))

\* A host-resident tensor of 7 rows in blocks of 3: three blocks, the last
\* of one row, and two prefetches.
C21_Witness ==
    /\ loop.pc = "done"
    /\ loop.cderi_sparse = "host"
    /\ loop.naux = 7 /\ loop.blksize = 3
    /\ Len(loop.yielded) = 3 /\ Len(loop.launched) = 2
    /\ loop.launched[2].lo = 6 /\ loop.launched[2].hi = 7
    /\ loop.yielded[3].id = loop.launched[2].into

(***************************************************************************)
(* C22 as stated: in DF.loop over a host-resident tensor the asynchronous  *)
(* copy of the next block is launched only after the current block has     *)
(* been yielded: the j-th copy, which fetches block j + 1, is launched     *)
(* when at least j blocks have been yielded.                               *)
(***************************************************************************)
C22_PrefetchAfterYield ==
    loop.pc # "idle" /\ loop.cderi_sparse = "host" =>
      \A j \in 1..Len(loop.launched) : loop.launched[j].after >= j

(***************************************************************************)
(* C22 amended: in DF.loop over a host-resident tensor the asynchronous    *)
(* copy of the next block is launched in the same iteration before the     *)
(* current block is yielded: when block j is staged and rows remain after  *)
(* it, the copy of block j + 1 has been launched with j - 1 blocks yielded.*)
(***************************************************************************)
C22_PrefetchBeforeYield ==
    loop.pc # "idle" /\ loop.cderi_sparse = "host" =>
      /\ \A j \in 1..Len(loop.launched) : loop.launched[j].after = j - 1
      /\ (loop.pc \in {"staged", "yielded"} /\ loop.p1 < loop.naux =>
             /\ Len(loop.launched) = Len(loop.yielded) + (IF loop.pc = "staged" THEN 1 ELSE 0)
             /\ loop.launched[Len(loop.launched)].lo = loop.p1
             /\ loop.launched[Len(loop.launched)].into = loop.buf_prefetch.id)

\* The second block is staged, not yet yielded, and the copy of the third
\* block is already in flight.
C22_Witness ==
    /\ loop.pc = "staged"
    /\ loop.cderi_sparse = "host"
    /\ Len(loop.yielded) = 1
    /\ Len(loop.launched) = 2
    /\ loop.buf_prefetch \in loop.inflight

(***************************************************************************)
(*                 The cache of range-separated DF objects                 *)
(*                                                                         *)
(* cache.objs is the heap of DF objects: object 1 is the DF object the     *)
(* calls are made on, every other one was made by copy.copy(self).reset(). *)
(* A field of an object is 0 for None, or the number of the DF.build run   *)
(* that set it.  rsh_df[key] is 0 when the key is absent from _rsh_df.     *)
(* omega is counted in units of 1e-7; None is NoOmega.  cache.served and   *)
(* cache.built record, since the last reset, which objects served the      *)
(* requests of a key and how many builds completed for it, cache.asked the *)
(* keys that get_jk, _get_jk or init_workflow asked the cache for.         *)
(* cache.check                                                             *)
(* records, for the last call of df_jk.get_jk, what became of the build it *)
(* ran and of its assert on the orbital count of the density matrix.       *)
(***************************************************************************)
MaxOmega == 8

MaxBuilds == 4

MaxObjs == 3

NoOmega == -1

\* Values of omega whose seventh decimal is not 5: '%.6f' rounds them the
\* same way whatever their binary representation.
OmegaSet == {w \in 0..MaxOmega : w % 10 # 5}

\* key = '%.6f' % omega (df.py line 114, df_jk.py lines 47 and 370): omega
\* rounded to 6 decimals, here the number of 1e-6 units.
FormatKey(w) == (w + 5) \div 10

Keys == {FormatKey(w) : w \in OmegaSet}

OwnerKey == -1

Owner == 1

EmptyRshDf == [k \in Keys |-> 0]

NoCounts == [k \in Keys \cup {OwnerKey} |-> 0]

NoServed == [k \in Keys \cup {OwnerKey} |-> {}]

\* DF.__init__, lines 40-47.
NewDF == [nao |-> 0, naux |-> 0, cd_low |-> 0, intopt |-> 0, cderi |-> 0,
          rsh_df |-> EmptyRshDf]

\* DF.reset, lines 180-190 (super().reset empties _rsh_df and _cderi).
ResetDFKeepingCache(o) ==
    [o EXCEPT !.intopt = 0, !.nao = 0, !.naux = 0, !.cd_low = 0, !.cderi = 0]

ResetDF(o) == [o EXCEPT !.intopt = 0, !.nao = 0, !.naux = 0, !.cd_low = 0,
                        !.cderi = 0, !.rsh_df = EmptyRshDf]

\* DF.build, lines 55-104, as run number n: nao, cd_low and naux are set
\* before cholesky_eri_gpu runs, _cderi and intopt only when it returns.
BuildDFStoringPartial(o, n, ok) ==
    [o EXCEPT !.nao = n, !.cd_low = n, !.naux = n, !.cderi = n, !.intopt = n]

BuildDF(o, n, ok) ==
    IF ok THEN [o EXCEPT !.nao = n, !.cd_low = n, !.naux = n, !.cderi = n, !.intopt = n]
    ELSE [o EXCEPT !.nao = n, !.cd_low = n, !.naux = n]

\* `key in self._rsh_df` and `self._rsh_df[key]`: the object cached under
\* the key, 0 when there is none.
CacheLookupMiss(rsh_df, key) == 0

CacheLookup(rsh_df, key) == rsh_df[key]

NoCheck == [build |-> "none", assert |-> "none", on |-> "none"]

InitCache ==
    /\ cache = [pc |-> "run", objs |-> <<NewDF>>, nbuild |-> 0,
                served |-> NoServed, built |-> NoCounts, hits |-> NoCounts,
                last |-> "init", check |-> NoCheck, asked |-> {}]
    /\ loop = IdleLoop /\ build = IdleBuild /\ pair = IdlePair /\ blk = IdleBlk
    /\ jk = IdleJk /\ wf = IdleWf /\ sr = IdleSr

\* df.py lines 114-118, df_jk.py lines 47-51 and 370-374: the cached object
\* of the key, or a reset shallow copy of the owner stored under the key.
\* Gives <<the heap, the object's number>>.
GetOrCreateOwner(objs, key) ==
    <<[objs EXCEPT ![Owner].rsh_df[key] = Owner], Owner>>

GetOrCreate(objs, key) ==
    LET hit == CacheLookup(objs[Owner].rsh_df, key)
        new == Len(objs) + 1
    IN  IF hit # 0 THEN <<objs, hit>>
        ELSE <<Append([objs EXCEPT ![Owner].rsh_df[key] = new], ResetDF(objs[Owner])),
               new>>

\* df_jk.get_jk lines 257-259 on object d: build when _cderi is None.
\* Gives <<the heap, the number of builds run, whether a build completed>>.
JkBuildAlways(objs, d, n, ok) ==
    <<[objs EXCEPT ![d] = BuildDF(objs[d], n + 1, ok)], n + 1, ok>>

JkBuild(objs, d, n, ok) ==
    IF objs[d].cderi = 0
    THEN <<[objs EXCEPT ![d] = BuildDF(objs[d], n + 1, ok)], n + 1, ok>>
    ELSE <<objs, n, FALSE>>

\* df_jk.get_jk lines 253-261: nao = dms_tag.shape[-1] is taken first, the
\* build of lines 257-259 runs next (ran: it was called, completed: it
\* returned), and `assert nao == dfobj.nao` is evaluated after it; dm_match
\* says whether the density matrix has the orbital count of the molecule,
\* which is what DF.build line 58 stores in dfobj.nao; `on` says whether
\* dfobj is the owner or a variant instance.
JkAssert(ran, completed, dm_match, on) ==
    [on |-> on,
     build |-> IF ~ran THEN "none" ELSE IF completed THEN "completed" ELSE "raised",
     assert |-> IF ran /\ ~completed THEN "not reached"
                ELSE IF dm_match THEN "passed" ELSE "failed"]

\* A draw that the call does not read makes no second transition: ok is read
\* when a build runs, dm_match when the assert is reached.
Read(ran, ok, dm_match) == (~ran => ok) /\ (ran /\ ~ok => dm_match)

\* The bookkeeping of a request of `key` served by object d (hits counts
\* the requests of the key up to 2).
Served(key, d, completed) ==
    [cache EXCEPT !.served[key] = @ \cup {d},
                  !.asked = IF key = OwnerKey THEN @ ELSE @ \cup {key},
                  !.hits[key] = Min(@ + 1, 2),
                  !.built[key] = IF completed THEN @ + 1 ELSE @]

\* DF.get_jk(dm, omega=omega), df.py lines 106-121, with the df_jk.get_jk it
\* ends in; ok says whether a build it runs completes or raises.
GetJK(omega, ok, dm_match) ==
    /\ cache.pc = "run"
    /\ cache.nbuild < MaxBuilds
    /\ IF omega = NoOmega
       THEN LET r == JkBuild(cache.objs, Owner, cache.nbuild, ok)
            IN  /\ Read(r[2] # cache.nbuild, ok, dm_match)
                /\ cache' = [Served(OwnerKey, Owner, r[3]) EXCEPT
                               !.objs = r[1], !.nbuild = r[2], !.last = "get_jk",
                               !.check = JkAssert(r[2] # cache.nbuild, r[3], dm_match,
                                                  "owner")]
       ELSE LET key == FormatKey(omega)
                g == GetOrCreate(cache.objs, key)
                r == JkBuild(g[1], g[2], cache.nbuild, ok)
            IN  /\ Len(g[1]) <= MaxObjs
                /\ Read(r[2] # cache.nbuild, ok, dm_match)
                /\ cache' = [Served(key, g[2], r[3]) EXCEPT
                               !.objs = r[1], !.nbuild = r[2], !.last = "get_jk",
                               !.check = JkAssert(r[2] # cache.nbuild, r[3], dm_match,
                                                  "variant")]
    /\ UNCHANGED <<loop, build, pair, blk, jk, wf, sr>>

\* df_jk._get_jk(dfobj, dm, omega=omega), df_jk.py lines 363-378.
GetJKFn(omega, ok, dm_match) ==
    /\ cache.pc = "run"
    /\ cache.nbuild < MaxBuilds
    /\ IF omega = NoOmega
       THEN LET r == JkBuild(cache.objs, Owner, cache.nbuild, ok)
            IN  /\ Read(r[2] # cache.nbuild, ok, dm_match)
                /\ cache' = [Served(OwnerKey, Owner, r[3]) EXCEPT
                               !.objs = r[1], !.nbuild = r[2], !.last = "_get_jk",
                               !.check = JkAssert(r[2] # cache.nbuild, r[3], dm_match,
                                                  "owner")]
       ELSE LET key == FormatKey(omega)
                g == GetOrCreate(cache.objs, key)
                r == JkBuild(g[1], g[2], cache.nbuild, ok)
            IN  /\ Len(g[1]) <= MaxObjs
                /\ Read(r[2] # cache.nbuild, ok, dm_match)
                /\ cache' = [Served(key, g[2], r[3]) EXCEPT
                               !.objs = r[1], !.nbuild = r[2], !.last = "_get_jk",
                               !.check = JkAssert(r[2] # cache.nbuild, r[3], dm_match,
                                                  "variant")]
    /\ UNCHANGED <<loop, build, pair, blk, jk, wf, sr>>

\* init_workflow's build_df, df_jk.py lines 42-53: mf.with_df.build(), then
\* for a DFT object with a range-separated functional (omega > 1e-10) the
\* variant of omega's key is built as well.  ok1 and ok2 say whether the
\* two builds complete.
InitWorkflow(numint, omega, ok1, ok2) ==
    /\ cache.pc = "run"
    /\ cache.nbuild + 1 < MaxBuilds
    /\ LET n1 == cache.nbuild + 1
           o1 == [cache.objs EXCEPT ![Owner] = BuildDF(@, n1, ok1)]
           c1 == [cache EXCEPT !.objs = o1, !.nbuild = n1, !.last = "init_workflow",
                               !.check = NoCheck,
                               !.built[OwnerKey] = IF ok1 THEN @ + 1 ELSE @]
       IN  IF ~ok1 \/ ~numint \/ omega = 0
           THEN cache' = c1
           ELSE LET key == FormatKey(omega)
                    g == GetOrCreate(o1, key)
                    o2 == [g[1] EXCEPT ![g[2]] = BuildDF(@, n1 + 1, ok2)]
                IN  /\ Len(g[1]) <= MaxObjs
                    /\ cache' = [c1 EXCEPT !.objs = o2, !.nbuild = n1 + 1,
                                           !.asked = @ \cup {key},
                                           !.built[key] = IF ok2 THEN @ + 1 ELSE @]
    /\ UNCHANGED <<loop, build, pair, blk, jk, wf, sr>>

\* DF.reset() on the owner, lines 180-190.
Reset ==
    /\ cache.pc = "run"
    /\ cache' = [cache EXCEPT !.objs[Owner] = ResetDF(@), !.served = NoServed,
                              !.built = NoCounts, !.hits = NoCounts, !.last = "reset",
                              !.check = NoCheck, !.asked = {}]
    /\ UNCHANGED <<loop, build, pair, blk, jk, wf, sr>>

NextCache ==
    \/ \E omega \in OmegaSet \cup {NoOmega}, ok \in BOOLEAN, dm_match \in BOOLEAN :
          GetJK(omega, ok, dm_match)
    \/ \E omega \in OmegaSet \cup {NoOmega}, ok \in BOOLEAN, dm_match \in BOOLEAN :
          GetJKFn(omega, ok, dm_match)
    \/ \E numint \in BOOLEAN, omega \in OmegaSet, ok1 \in BOOLEAN, ok2 \in BOOLEAN :
          InitWorkflow(numint, omega, ok1, ok2)
    \/ Reset

SpecCache == InitCache /\ [][NextCache]_vars

(***************************************************************************)
(* C2: between two resets, all get_jk(omega) requests whose omega formats  *)
(* to the same '%.6f' key are served by one and the same cached object,    *)
(* requests of different keys are served by different objects (none of     *)
(* them the owner), and _rsh_df holds one object per key, the one that     *)
(* served the key.                                                         *)
(***************************************************************************)
C2_OneInstancePerKey ==
    cache.pc = "run" =>
      LET rsh_df == cache.objs[Owner].rsh_df
      IN  /\ \A k \in Keys :
                /\ Cardinality(cache.served[k]) <= 1
                /\ Owner \notin cache.served[k]
                /\ (cache.served[k] # {} => cache.served[k] = {rsh_df[k]})
          /\ \A k1, k2 \in Keys :
                k1 # k2 => /\ cache.served[k1] \cap cache.served[k2] = {}
                           /\ (rsh_df[k1] # 0 => rsh_df[k1] # rsh_df[k2])

\* Key 1 was requested at least twice and key 0 as well, each served by its
\* own object.
C2_Witness ==
    /\ cache.pc = "run"
    /\ cache.hits[1] = 2 /\ Cardinality(cache.served[1]) = 1
    /\ cache.hits[0] >= 1 /\ Cardinality(cache.served[0]) = 1
    /\ cache.served[0] # cache.served[1]

(***************************************************************************)
(* C3: between two resets, over any sequence of init_workflow and          *)
(* get_jk(omega) calls, DF.build runs to completion at most once for each  *)
(* variant key.                                                            *)
(***************************************************************************)
C3_AtMostOneBuildPerKey ==
    cache.pc = "run" => \A k \in Keys : cache.built[k] <= 1

(***************************************************************************)
(*                    DF.build and cholesky_eri_gpu                        *)
(*                                                                         *)
(* The metric j2c enters by its spectrum build.w (what eigh returns, in    *)
(* ascending order, in units of 1e-8); naux0 = Len(build.w).               *)
(* build.ao_pairs[cp] is len(intopt.ao_pairs_row[cp]), the number of       *)
(* orbital pairs kept in group pair cp, and npair = len(intopt.cderi_row)  *)
(* is their sum.  Memory is counted in bytes.                              *)
(***************************************************************************)
MaxAux == 2

MaxGroups == 3

MaxAvailSteps == 8

LINEAR_DEP_TOL == 10

\* A negative, a zero, a positive eigenvalue equal to the tolerance, and one
\* above it.
EigVals == {-2, 0, LINEAR_DEP_TOL, LINEAR_DEP_TOL + 40}

Spectra == {w \in UNION {[1..n -> EigVals] : n \in 1..MaxAux} :
               \A i \in 1..(Len(w) - 1) : w[i] <= w[i + 1]}

PairCounts == UNION {[1..n -> {0, 1, 2}] : n \in 1..MaxGroups}

\* Budgets get_avail_mem can return: the multiples of 20 bytes, so that
\* every 2.5 * requiredBytes is among them.
AvailSet == {((8 * 5) \div 2) * k : k \in 0..MaxAvailSteps}

\* gpu4pyscf.lib.cusolver.cholesky raises when the matrix is not positive
\* definite.
CholeskyOK(w) == \A i \in 1..Len(w) : w[i] > 0

\* line 94: idx = w > LINEAR_DEP_TOL, the eigenpairs kept.
KeptEigGe(w) == {i \in 1..Len(w) : w[i] >= LINEAR_DEP_TOL}

KeptEig(w) == {i \in 1..Len(w) : w[i] > LINEAR_DEP_TOL}

\* lines 89-99: the tag of cd_low and naux = cd_low.shape[1].
FactorTruncating(w) ==
    [tag |-> IF CholeskyOK(w) THEN "cd" ELSE "eig", naux |-> Cardinality(KeptEig(w))]

Factor(w) ==
    IF CholeskyOK(w) THEN [tag |-> "cd", naux |-> Len(w)]
    ELSE [tag |-> "eig", naux |-> Cardinality(KeptEig(w))]

\* line 205: naux * npair * 8 < 0.4 * avail_mem.
FitsGpuLe(naux, npair, avail_mem) == 5 * (naux * npair * 8) <= 2 * avail_mem

FitsGpu(naux, npair, avail_mem) == 5 * (naux * npair * 8) < 2 * avail_mem

\* line 277: isinstance(cderi, cupy.ndarray) picks where a slice is written.
WriteTierDevice(cderi) == "gpu"

WriteTier(cderi) == cderi

\* lines 269-274: the contraction rule of a tag (with any other tag
\* cderi_block would stay unbound).
ContractionSolveOnly(tag) == "solve_triangular"

Contraction(tag) ==
    IF tag = "eig" THEN "dot"
    ELSE IF tag = "cd" THEN "solve_triangular"
    ELSE "unbound"

\* df_jk.get_j lines 387-390: the solver applied to the metric j2c.
JSolve(tag) == IF tag = "eig" THEN "lstsq" ELSE "solve"

\* lines 204-211: use_gpu_memory after the budget test and the try of
\* cupy.empty.
UseGpuMemoryUntried(fits, gpu_ok) == fits

UseGpuMemory(fits, gpu_ok) == fits /\ gpu_ok

\* lines 216-219: alloc_pinned_memory raised; RuntimeError('Out of CPU
\* memory') leaves cholesky_eri_gpu and DF.build.
PinnedAllocRaisedGoesOn(b) ==
    [b EXCEPT !.pc = "pairs", !.tier = "host", !.pinned_alloc = "failed"]

PinnedAllocRaised(b) ==
    [b EXCEPT !.pc = "failed", !.error = "Out of CPU memory", !.pinned_alloc = "failed"]

\* line 285: cupy.cuda.Device().synchronize() returns once no copy queued on
\* data_stream is pending.
DeviceSynchronizedNoWait(pending) == TRUE

DeviceSynchronized(pending) == pending = 0

\* lines 275-276: ij0, ij1 = count, count + cderi_block.shape[1], the columns
\* a group pair of `width` retained orbital pairs is written to.
ColumnRangeFromZero(count, width) == <<0, width>>

ColumnRange(count, width) == <<count, count + width>>

\* An exception of get_int3c2e_slice (lines 240-254) is caught nowhere: it
\* leaves cholesky_eri_gpu and DF.build, whose lines 102-104 store nothing.
EvaluatorRaisedStored(b) ==
    [b EXCEPT !.pc = "failed", !.error = "evaluator", !.cderi = b.tier, !.intopt = TRUE]

EvaluatorRaised(b) == [b EXCEPT !.pc = "failed", !.error = "evaluator"]

InitBuild ==
    /\ \E w \in Spectra, ao_pairs \in PairCounts :
         build = [pc |-> "start", w |-> w, ao_pairs |-> ao_pairs,
                  chol_raised |-> FALSE, tag |-> "none", naux |-> 0,
                  npair |-> 0, avail_mem |-> 0, mem_queries |-> 0,
                  use_gpu_memory |-> TRUE, gpu_alloc |-> "none",
                  pinned_alloc |-> "none", allocs |-> 0,
                  resident |-> {}, tier |-> "none",
                  cp |-> 1, count |-> 0, writes |-> <<>>, pending |-> 0,
                  error |-> "none", cderi |-> "None", intopt |-> FALSE,
                  j_rule |-> "none", j_error |-> "none"]
    /\ loop = IdleLoop /\ cache = IdleCache /\ pair = IdlePair /\ blk = IdleBlk
    /\ jk = IdleJk /\ wf = IdleWf /\ sr = IdleSr

\* DF.build lines 55-100: the metric and its factorization.
BuildFactor ==
    /\ build.pc = "start"
    /\ LET f == Factor(build.w)
       IN  build' = [build EXCEPT !.pc = "eri",
                                  !.chol_raised = ~CholeskyOK(build.w),
                                  !.tag = f.tag, !.naux = f.naux]
    /\ UNCHANGED <<loop, cache, pair, blk, jk, wf, sr>>

\* cholesky_eri_gpu lines 197-221: one query of the budget, then the
\* allocation; gpu_ok and pinned_ok say whether cupy.empty and
\* alloc_pinned_memory succeed when they are called.
EriAlloc(avail_mem, gpu_ok, pinned_ok) ==
    /\ build.pc = "eri"
    /\ LET npair == SumSeq(build.ao_pairs)
           fits == FitsGpu(build.naux, npair, avail_mem)
           use_gpu_memory == UseGpuMemory(fits, gpu_ok)
           b1 == [build EXCEPT !.npair = npair, !.avail_mem = avail_mem,
                               !.mem_queries = @ + 1,
                               !.use_gpu_memory = use_gpu_memory,
                               !.gpu_alloc = IF ~fits THEN "none"
                                             ELSE IF gpu_ok THEN "ok" ELSE "failed"]
       IN  \* a draw that is not read does not make a second transition, and
           \* an allocation of zero bytes does not raise
           /\ (~fits \/ build.naux * npair = 0 => gpu_ok)
           /\ (use_gpu_memory \/ build.naux * npair = 0 => pinned_ok)
           /\ IF use_gpu_memory
              THEN build' = [b1 EXCEPT !.pc = "pairs", !.tier = "gpu", !.allocs = @ + 1,
                                       !.resident = @ \cup {"gpu"}]
              ELSE IF pinned_ok
              THEN build' = [b1 EXCEPT !.pc = "pairs", !.tier = "host", !.allocs = @ + 1,
                                       !.resident = @ \cup {"host"},
                                       !.pinned_alloc = "ok"]
              ELSE build' = PinnedAllocRaised(b1)
    /\ UNCHANGED <<loop, cache, pair, blk, jk, wf, sr>>

\* lines 224-283 for group pair cp: skipped when it keeps no orbital pair;
\* else its integrals are evaluated (eval_ok: get_int3c2e_slice returns),
\* contracted by the rule of the tag and written to columns
\* [count, count + n) of cderi.
EriGroupPair(eval_ok) ==
    /\ build.pc = "pairs"
    /\ build.cp <= Len(build.ao_pairs)
    /\ LET n == build.ao_pairs[build.cp]
           to == WriteTier(build.tier)
           ij == ColumnRange(build.count, n)
       IN  IF n = 0
           THEN /\ eval_ok
                /\ build' = [build EXCEPT !.cp = @ + 1]
           ELSE IF ~eval_ok
           THEN build' = EvaluatorRaised(build)
           ELSE build' = [build EXCEPT
                            !.cp = @ + 1, !.count = ij[2],
                            !.writes = Append(@, [cp |-> build.cp, ij0 |-> ij[1],
                                                  ij1 |-> ij[2], tier |-> to,
                                                  rule |-> Contraction(build.tag)]),
                            !.pending = IF to = "host" THEN @ + 1 ELSE @]
    /\ UNCHANGED <<loop, cache, pair, blk, jk, wf, sr>>

\* data_stream finishes the device-to-host copies of one group pair.
EriCopyDone ==
    /\ build.pc = "pairs"
    /\ build.pending > 0
    /\ build' = [build EXCEPT !.pending = @ - 1]
    /\ UNCHANGED <<loop, cache, pair, blk, jk, wf, sr>>

\* lines 285-286 and DF.build lines 102-104: the device synchronizes, the
\* tensor is returned and stored with intopt.
EriReturn ==
    /\ build.pc = "pairs"
    /\ build.cp > Len(build.ao_pairs)
    /\ DeviceSynchronized(build.pending)
    /\ build' = [build EXCEPT !.pc = "done", !.cderi = build.tier, !.intopt = TRUE]
    /\ UNCHANGED <<loop, cache, pair, blk, jk, wf, sr>>

\* df_jk.get_j on the built object, lines 380-394: the density is fitted
\* with the solver of the tag.  cupy.linalg.lstsq returns the tuple
\* (x, residuals, rank, s), so after the 'eig' branch `rhoj *= 2.0` of line
\* 392 raises TypeError; cupy.linalg.solve returns the array.
GetJ ==
    /\ build.pc = "done"
    /\ build.j_rule = "none"
    /\ build' = [build EXCEPT !.j_rule = JSolve(build.tag),
                              !.j_error = IF JSolve(build.tag) = "lstsq"
                                          THEN "TypeError" ELSE "none"]
    /\ UNCHANGED <<loop, cache, pair, blk, jk, wf, sr>>

NextBuild ==
    \/ BuildFactor
    \/ \E avail_mem \in AvailSet, gpu_ok \in BOOLEAN, pinned_ok \in BOOLEAN :
          EriAlloc(avail_mem, gpu_ok, pinned_ok)
    \/ \E eval_ok \in BOOLEAN : EriGroupPair(eval_ok)
    \/ EriCopyDone
    \/ EriReturn
    \/ GetJ

SpecBuild == InitBuild /\ [][NextBuild]_vars

\* requiredBytes = naux * npair * 8 of a build that has queried the budget.
RequiredBytes == build.naux * build.npair * 8

Placed == build.pc \in {"pairs", "done"}

C5_TierChosenOnce ==
    /\ (build.pc \in {"start", "eri"} =>
           build.mem_queries = 0 /\ build.allocs = 0 /\ build.writes = <<>>)
    /\ (Placed =>
           /\ build.mem_queries = 1
           /\ build.allocs = 1
           /\ build.resident = {build.tier}
           /\ \A k \in 1..Len(build.writes) : build.writes[k].tier = build.tier)
    /\ (build.pc = "failed" => build.mem_queries = 1 /\ build.allocs <= 1)
    /\ (build.pc = "done" => build.cderi = build.tier /\ build.cderi \in {"gpu", "host"})

\* A completed build that wrote two group pairs to the host tier.
C5_Witness ==
    /\ build.pc = "done"
    /\ build.tier = "host"
    /\ Len(build.writes) = 2

(***************************************************************************)
(* C6: once DF.build has factorized the metric, and so after every         *)
(* successful build, naux <= naux0; under the tag 'cd' naux = naux0; and   *)
(* naux < naux0 only under the tag 'eig'.                                  *)
(***************************************************************************)
C6_NauxBound ==
    build.pc \in {"eri", "pairs", "done", "failed"} =>
      /\ build.tag \in {"cd", "eig"}
      /\ build.naux <= Len(build.w)
      /\ (build.tag = "cd" => build.naux = Len(build.w))
      /\ (build.naux < Len(build.w) => build.tag = "eig")

\* Completed builds exist under the tag 'eig' with naux < naux0.
C6_Witness ==
    /\ build.pc = "done"
    /\ build.tag = "eig"
    /\ build.naux < Len(build.w)
    /\ build.naux > 0

(***************************************************************************)
(* C7: when the Cholesky factorization of the metric raises, DF.build goes *)
(* on: it records the tag 'eig' and naux is the number of eigenvalues      *)
(* greater than 1e-7; a singular metric gives the tag 'eig' and            *)
(* naux < naux0.                                                           *)
(***************************************************************************)
C7_EigFallback ==
    /\ (build.chol_raised =>
           /\ build.pc \in {"eri", "pairs", "done", "failed"}
           /\ build.tag = "eig"
           \* 10 units of 1e-8 are the 1e-7 of the claim
           /\ build.naux = Cardinality({i \in 1..Len(build.w) : build.w[i] > 10})
           /\ (build.pc = "failed" => build.error \in {"Out of CPU memory", "evaluator"}))
    /\ (build.pc \in {"eri", "pairs", "done"} /\ (\E i \in 1..Len(build.w) : build.w[i] = 0) =>
           /\ build.chol_raised
           /\ build.tag = "eig"
           /\ build.naux < Len(build.w))

\* A singular metric with spectrum (0, 5e-7) built to completion with one
\* auxiliary function kept.
C7_Witness ==
    /\ build.pc = "done"
    /\ build.chol_raised
    /\ build.w = <<0, 50>>
    /\ build.tag = "eig"
    /\ build.naux = 1

(***************************************************************************)
(*                         The packed pair index                           *)
(*                                                                         *)
(* pair.nao is mol.nao and pair.M the symmetric nao x nao matrix that is   *)
(* packed, a function on 0..nao-1 twice.  Index arrays are sequences:      *)
(* position k of the source (from 0) is element k + 1.                     *)
(***************************************************************************)
MaxNao == 3

MatVals == {0, 1, 2}

Idx(n) == 0..(n - 1)

\* The symmetric n x n matrices over MatVals, each given by its lower triangle.
SymMats(n) ==
    LET lower == {ij \in Idx(n) \X Idx(n) : ij[2] <= ij[1]}
    IN  {[i \in Idx(n) |-> [j \in Idx(n) |-> t[<<Max(i, j), Min(i, j)>>]]] :
            t \in [lower -> MatVals]}

\* cupy.tril_indices(nao), line 62: the positions of the lower triangle,
\* diagonal included, in row-major order, as <<row, col>> pairs.
RECURSIVE TrilPairs(_)
TrilPairs(n) ==
    IF n = 0 THEN <<>>
    ELSE TrilPairs(n - 1) \o [j \in 1..n |-> <<n - 1, j - 1>>]

TrilRow(n) == [k \in 1..Len(TrilPairs(n)) |-> TrilPairs(n)[k][1]]

TrilCol(n) == [k \in 1..Len(TrilPairs(n)) |-> TrilPairs(n)[k][2]]

\* lines 69-70: idx*(idx+1)//2 + idx for idx = arange(nao).
DiagIdxRowStart(n) == [i \in 1..n |-> ((i - 1) * i) \div 2]

DiagIdx(n) == [i \in 1..n |-> ((i - 1) * i) \div 2 + (i - 1)]

Zeros(n) == [i \in Idx(n) |-> [j \in Idx(n) |-> 0]]

\* a[rows, cols] = vals, an indexed assignment done position by position.
RECURSIVE ScatterAdd(_, _, _, _)
ScatterAdd(a, rows, cols, vals) ==
    IF rows = <<>> THEN a
    ELSE ScatterAdd([a EXCEPT ![Head(rows)][Head(cols)] = @ + Head(vals)],
                    Tail(rows), Tail(cols), Tail(vals))

RECURSIVE Scatter(_, _, _, _)
Scatter(a, rows, cols, vals) ==
    IF rows = <<>> THEN a
    ELSE Scatter([a EXCEPT ![Head(rows)][Head(cols)] = Head(vals)],
                 Tail(rows), Tail(cols), Tail(vals))

\* dms[:, rows, cols] (df_jk.py line 271): the entries at the pair positions.
Gather(M, rows, cols) == [k \in 1..Len(rows) |-> M[rows[k]][cols[k]]]

\* DF.loop lines 168-170 (and df_jk.py lines 296-297): a zero matrix filled
\* at (rows, cols) and then at (cols, rows).
Unpack(n, rows, cols, packed) ==
    Scatter(Scatter(Zeros(n), rows, cols, packed), cols, rows, packed)

InitPair ==
    /\ \E n \in 1..MaxNao : \E M \in SymMats(n) :
         pair = [pc |-> "start", nao |-> n, M |-> M, tril_row |-> <<>>,
                 tril_col |-> <<>>, diag_idx |-> <<>>, packed |-> <<>>,
                 unpacked |-> Zeros(n)]
    /\ loop = IdleLoop /\ cache = IdleCache /\ build = IdleBuild /\ blk = IdleBlk
    /\ jk = IdleJk /\ wf = IdleWf /\ sr = IdleSr

\* DF.build lines 60-70.
BuildIndex ==
    /\ pair.pc = "start"
    /\ pair' = [pair EXCEPT !.pc = "indexed", !.tril_row = TrilRow(pair.nao),
                            !.tril_col = TrilCol(pair.nao),
                            !.diag_idx = DiagIdx(pair.nao)]
    /\ UNCHANGED <<loop, cache, build, blk, jk, wf, sr>>

\* The matrix is packed through the pair index.
Pack ==
    /\ pair.pc = "indexed"
    /\ pair' = [pair EXCEPT !.pc = "packed",
                            !.packed = Gather(pair.M, pair.tril_row, pair.tril_col)]
    /\ UNCHANGED <<loop, cache, build, blk, jk, wf, sr>>

\* The packed values are unpacked as DF.loop unpacks a row of a block.
UnpackStep ==
    /\ pair.pc = "packed"
    /\ pair' = [pair EXCEPT !.pc = "unpacked",
                            !.unpacked = Unpack(pair.nao, pair.tril_row, pair.tril_col,
                                                pair.packed)]
    /\ UNCHANGED <<loop, cache, build, blk, jk, wf, sr>>

NextPair == BuildIndex \/ Pack \/ UnpackStep

SpecPair == InitPair /\ [][NextPair]_vars

(***************************************************************************)
(* C8: for every nao >= 1, (tril_row, tril_col) holds every pair (i, j)    *)
(* with 0 <= j <= i < nao exactly once, so it has nao(nao+1)/2 entries     *)
(* with row >= col, and diag_idx has nao entries, diag_idx[i] =            *)
(* i(i+1)/2 + i being the one position k with row[k] = col[k] = i.         *)
(***************************************************************************)
C8_PairIndex ==
    pair.pc \in {"indexed", "packed", "unpacked"} =>
      LET n == pair.nao
          row == pair.tril_row
          col == pair.tril_col
      IN  /\ Len(row) = (n * (n + 1)) \div 2
          /\ Len(col) = Len(row)
          /\ \A k \in 1..Len(row) : 0 <= col[k] /\ col[k] <= row[k] /\ row[k] < n
          /\ \A i, j \in Idx(n) :
                j <= i => Cardinality({k \in 1..Len(row) : row[k] = i /\ col[k] = j}) = 1
          /\ Len(pair.diag_idx) = n
          /\ \A i \in Idx(n) :
                /\ pair.diag_idx[i + 1] = (i * (i + 1)) \div 2 + i
                /\ {k \in 1..Len(row) : row[k] = i /\ col[k] = i} = {pair.diag_idx[i + 1] + 1}

\* The index of 3 orbitals: 6 pairs, the diagonal at positions 0, 2 and 5.
C8_Witness ==
    /\ pair.pc = "indexed"
    /\ pair.nao = 3
    /\ Len(pair.tril_row) = 6
    /\ pair.diag_idx = <<0, 2, 5>>

(***************************************************************************)
(* C9: packing a symmetric matrix through the pair index and unpacking it  *)
(* as DF.loop does gives the matrix back: the off-diagonal entries on both *)
(* sides, the diagonal entries once.                                       *)
(***************************************************************************)
C9_PackUnpackRoundTrip ==
    pair.pc = "unpacked" =>
      \A i, j \in Idx(pair.nao) : pair.unpacked[i][j] = pair.M[i][j]

\* A 3 x 3 matrix with nonzero diagonal and off-diagonal entries went round.
C9_Witness ==
    /\ pair.pc = "unpacked"
    /\ pair.nao = 3
    /\ pair.M[1][1] = 2 /\ pair.M[2][0] = 1 /\ pair.M[2][1] = 2
    /\ pair.unpacked[0][2] = 1 /\ pair.unpacked[1][1] = 2

(***************************************************************************)
(*                            DF.get_blksize                               *)
(***************************************************************************)
MIN_BLK_SIZE == 128

ALIGNED == 32

MaxMemSteps == 50

MaxExtra == 1

MaxBlkNao == 2

\* Budgets get_avail_mem can return: the multiples of half the memory of
\* one aligned row block of a 1 x 1 problem.
BlkAvailSet == {((5 * 8 * ALIGNED) \div 2) * k : k \in 0..MaxMemSteps}

\* line 129: int(mem_avail*0.2/8/(nao*nao + extra) / ALIGNED) * ALIGNED.
AlignedBlk(mem_avail, nao, extra) ==
    (mem_avail \div (5 * 8 * (nao * nao + extra) * ALIGNED)) * ALIGNED

\* lines 129-130: the block size before the check of line 133.
BlksizeAtLeastMin(mem_avail, nao, extra) ==
    Max(AlignedBlk(mem_avail, nao, extra), MIN_BLK_SIZE)

Blksize(mem_avail, nao, extra) ==
    Min(AlignedBlk(mem_avail, nao, extra), MIN_BLK_SIZE)

\* line 133: the test that raises RuntimeError("Not enough GPU memory").
NotEnoughMemoryLe(blksize) == blksize <= ALIGNED

NotEnoughMemory(blksize) == blksize < ALIGNED

InitBlk ==
    /\ \E nao \in 1..MaxBlkNao :
         blk = [pc |-> "ready", self_nao |-> nao, mem_avail |-> 0, nao |-> 0,
                extra |-> 0, blksize |-> 0]
    /\ loop = IdleLoop /\ cache = IdleCache /\ build = IdleBuild /\ pair = IdlePair
    /\ jk = IdleJk /\ wf = IdleWf /\ sr = IdleSr

\* DF.get_blksize(extra, nao), lines 123-135; nao = 0 stands for None.
GetBlksize(mem_avail, extra, nao_arg) ==
    /\ blk.pc # "idle"
    /\ LET nao == IF nao_arg = 0 THEN blk.self_nao ELSE nao_arg
           blksize == Blksize(mem_avail, nao, extra)
       IN  blk' = [blk EXCEPT !.pc = IF NotEnoughMemory(blksize) THEN "raised"
                                     ELSE "returned",
                              !.mem_avail = mem_avail, !.nao = nao, !.extra = extra,
                              !.blksize = blksize]
    /\ UNCHANGED <<loop, cache, build, pair, jk, wf, sr>>

NextBlk ==
    \E mem_avail \in BlkAvailSet, extra \in 0..MaxExtra, nao_arg \in 0..MaxBlkNao :
       GetBlksize(mem_avail, extra, nao_arg)

SpecBlk == InitBlk /\ [][NextBlk]_vars

\* floor(availableBytes * 0.2 / 8 / (nao^2 + extra) / alignment) * alignment
\* of the last call.
ClaimedAligned ==
    (blk.mem_avail \div (1280 * (blk.nao * blk.nao + blk.extra))) * 32

(***************************************************************************)
(* C10 as stated: whenever get_blksize returns, the block size is not      *)
(* smaller than MIN_BLK_SIZE (128).                                        *)
(***************************************************************************)
C10_NotBelowMin ==
    blk.pc = "returned" => blk.blksize >= 128

(***************************************************************************)
(* C10 amended: get_blksize computes floor(availableBytes * 0.2 / 8 /      *)
(* (nao^2 + extra) / alignment) * alignment and caps it at MIN_BLK_SIZE    *)
(* (it takes the smaller of the two), so that whenever it returns, the     *)
(* block size is not larger than MIN_BLK_SIZE (128).                       *)
(***************************************************************************)
C10_CappedAtMin ==
    blk.pc = "returned" =>
      /\ blk.blksize = (IF ClaimedAligned < 128 THEN ClaimedAligned ELSE 128)
      /\ blk.blksize <= 128

\* A call whose aligned block size, 160, was cut to 128.
C10_Witness ==
    /\ blk.pc = "returned"
    /\ ClaimedAligned = 160
    /\ blk.blksize = 128

(***************************************************************************)
(* C11: get_blksize raises "Not enough GPU memory" exactly when the        *)
(* aligned block size it computed is below the alignment unit (32); in     *)
(* every other case it returns a positive multiple of the alignment unit,  *)
(* so it never returns a block size below the alignment unit.              *)
(***************************************************************************)
C11_RaiseIffBelowAligned ==
    blk.pc \in {"raised", "returned"} =>
      /\ (blk.pc = "raised") = (ClaimedAligned < 32)
      /\ (blk.pc = "returned" =>
             /\ blk.blksize >= 32
             /\ blk.blksize % 32 = 0)

\* A call with a nonzero budget too small for one aligned block raised, the
\* budget of exactly one aligned block being the smallest that returns.
C11_Witness ==
    /\ blk.pc = "raised"
    /\ blk.mem_avail > 0
    /\ blk.mem_avail + 640 = 1280 * (blk.nao * blk.nao + blk.extra)

\* The group pairs before cp that keep at least one orbital pair.
Retained(cp) == {g \in 1..(cp - 1) : build.ao_pairs[g] > 0}

\* The number of orbital pairs kept by the group pairs before cp.
PairsBefore(cp) == SumSeq(SubSeq(build.ao_pairs, 1, cp - 1))

(***************************************************************************)
(* C14: cholesky_eri_gpu processes the group pairs in ascending index and  *)
(* skips those with no retained orbital pair without consuming columns;    *)
(* the k-th processed group pair writes the columns [count, count + its    *)
(* pair count), count being the pair count of all group pairs processed    *)
(* before; the ranges start at 0, are disjoint and leave no gap, and at    *)
(* the return every column of [0, npair) has been written exactly once.    *)
(***************************************************************************)
C14_ColumnsContiguous ==
    build.pc \in {"pairs", "done"} =>
      /\ {build.writes[k].cp : k \in 1..Len(build.writes)} = Retained(build.cp)
      /\ \A k \in 1..Len(build.writes) :
            LET wr == build.writes[k]
            IN  /\ (k > 1 => build.writes[k - 1].cp < wr.cp)
                /\ wr.ij0 = (IF k = 1 THEN 0 ELSE build.writes[k - 1].ij1)
                /\ wr.ij0 = PairsBefore(wr.cp)
                /\ wr.ij1 = wr.ij0 + build.ao_pairs[wr.cp]
      /\ build.count = PairsBefore(build.cp)
      /\ (build.pc = "done" =>
             \A c \in 0..(build.npair - 1) :
                Cardinality({k \in 1..Len(build.writes) :
                               build.writes[k].ij0 <= c /\ c < build.writes[k].ij1}) = 1)

\* Three group pairs keeping 1, 0 and 2 orbital pairs: the second is
\* skipped and the third writes the columns [1, 3).
C14_Witness ==
    /\ build.pc = "done"
    /\ build.ao_pairs = <<1, 0, 2>>
    /\ Len(build.writes) = 2
    /\ build.writes[2].cp = 3
    /\ build.writes[2].ij0 = 1 /\ build.writes[2].ij1 = 3

(***************************************************************************)
(* C15: if the integral evaluator fails for a group pair during DF.build,  *)
(* the failure leaves build at once: no later group pair is processed and  *)
(* _cderi and intopt are still unset (None) after the failed build; a      *)
(* factor tensor is exposed only by a build that wrote all its columns.    *)
(***************************************************************************)
C15_EvaluatorFailureExposesNothing ==
    /\ (build.pc # "idle" /\ build.error = "evaluator" =>
           /\ build.pc = "failed"
           /\ build.cderi = "None" /\ build.intopt = FALSE
           /\ build.ao_pairs[build.cp] > 0
           /\ \A k \in 1..Len(build.writes) : build.writes[k].cp < build.cp
           /\ build.count = PairsBefore(build.cp))
    /\ (build.pc # "idle" /\ (build.cderi # "None" \/ build.intopt) =>
           /\ build.pc = "done"
           /\ build.count = build.npair
           /\ build.pending = 0)

\* The evaluator failed for the third group pair after the first had been
\* written to the allocated tensor.
C15_Witness ==
    /\ build.pc = "failed"
    /\ build.error = "evaluator"
    /\ build.cp = 3
    /\ Len(build.writes) = 1
    /\ build.resident # {}
    /\ build.cderi = "None"

(***************************************************************************)
(* C16 as stated: when the Cholesky factorization fails and no eigenvalue  *)
(* of the metric exceeds the 1e-7 threshold, DF.build raises: it does not  *)
(* go on to allocate and fill a tensor, and it does not complete with an   *)
(* empty basis (naux = 0) and an empty factor tensor.                      *)
(***************************************************************************)
C16_NoEmptyBasis ==
    build.pc # "idle" /\ build.chol_raised /\ KeptEig(build.w) = {} =>
      /\ build.pc \notin {"pairs", "done"}
      /\ build.cderi = "None"

(***************************************************************************)
(* C17: if the pinned host allocation of the fallback tier fails,          *)
(* cholesky_eri_gpu raises 'Out of CPU memory' before any group pair is    *)
(* processed; nothing is allocated in a third tier or with a smaller       *)
(* buffer, and the budget is not queried again.                            *)
(***************************************************************************)
C17_PinnedFailureIsFatal ==
    build.pc # "idle" =>
      /\ (build.pinned_alloc = "failed" =>
             /\ build.pc = "failed"
             /\ build.error = "Out of CPU memory"
             /\ build.cp = 1 /\ build.count = 0 /\ build.writes = <<>>
             /\ build.tier = "none" /\ build.resident = {} /\ build.allocs = 0
             /\ build.mem_queries = 1
             /\ build.cderi = "None")
      /\ (build.error = "Out of CPU memory" => build.pinned_alloc = "failed")

\* A tensor over the budget whose pinned allocation raised.
C17_Witness ==
    /\ build.pc = "failed"
    /\ build.pinned_alloc = "failed"
    /\ build.gpu_alloc = "none"
    /\ RequiredBytes > 0
    /\ 5 * RequiredBytes > 2 * build.avail_mem

C19_AssertBeforeBuild ==
    cache.pc # "idle" /\ cache.check.assert = "failed" => cache.check.build = "none"

(***************************************************************************)
(* C20: the cache of the owning DF object holds an instance for a key only *)
(* once that key has been requested (requests with omega = None ask for no *)
(* key and create no entry), and after the owner is reset its cache holds  *)
(* no instance and its intopt, nao, naux, cd_low and _cderi are all unset. *)
(***************************************************************************)
C20_EntryOnlyAfterRequest ==
    cache.pc # "idle" =>
      /\ \A key \in Keys :
            cache.objs[Owner].rsh_df[key] # 0 <=> key \in cache.asked
      /\ (cache.last = "reset" =>
             /\ cache.objs[Owner].rsh_df = EmptyRshDf
             /\ cache.objs[Owner].intopt = 0 /\ cache.objs[Owner].nao = 0
             /\ cache.objs[Owner].naux = 0 /\ cache.objs[Owner].cd_low = 0
             /\ cache.objs[Owner].cderi = 0)

\* The owner was reset after two variant instances had been created and
\* three builds had run.
C20_Witness ==
    /\ cache.last = "reset"
    /\ Len(cache.objs) = 3
    /\ cache.nbuild = 3
    /\ cache.objs[2].cderi # 0
    /\ cache.objs[Owner].rsh_df = EmptyRshDf

(***************************************************************************)
(* C23: once DF.build has factored the metric the tag of the basis is one  *)
(* of 'cd' and 'eig', and every later contraction follows it:              *)
(* cholesky_eri_gpu contracts every group pair by a lower-triangular solve *)
(* when the tag is 'cd' and by a transpose-multiply when it is 'eig', and  *)
(* get_j fits with a least-squares solve for 'eig' and a direct solve      *)
(* otherwise; no group pair is contracted by the rule of the other tag.    *)
(***************************************************************************)
C23_ContractionFollowsTag ==
    Placed =>
      /\ build.tag \in {"cd", "eig"}
      /\ build.tag = (IF build.chol_raised THEN "eig" ELSE "cd")
      /\ \A k \in 1..Len(build.writes) :
            /\ (build.tag = "cd" => build.writes[k].rule = "solve_triangular")
            /\ (build.tag = "eig" => build.writes[k].rule = "dot")
      /\ (build.j_rule # "none" =>
             /\ (build.tag = "eig" => build.j_rule = "lstsq")
             /\ (build.tag = "cd" => build.j_rule = "solve"))

\* After an eigen fallback two group pairs were contracted by the
\* transpose-multiply and get_j took the least-squares solve.
C23_Witness ==
    /\ build.pc = "done"
    /\ build.tag = "eig"
    /\ Len(build.writes) = 2
    /\ build.writes[2].rule = "dot"
    /\ build.j_rule = "lstsq"

(***************************************************************************)
(* C24 as stated: a variant instance is inserted into the cache map only   *)
(* after its build has completed, so every instance present in the map has *)
(* a factor tensor, also after a build that failed.                        *)
(***************************************************************************)
C24_OnlyBuiltInMap ==
    cache.pc # "idle" =>
      \A key \in Keys :
         LET d == cache.objs[Owner].rsh_df[key]
         IN  d # 0 => cache.objs[d].cderi # 0

(***************************************************************************)
(* C24 amended: a variant instance is inserted into the cache map when it  *)
(* is created, before its build runs; an instance in the map has a factor  *)
(* tensor exactly when a build of it has completed, so after a failed      *)
(* build the map holds an instance without factor tensor.                  *)
(***************************************************************************)
C24_InsertedBeforeBuild ==
    cache.pc # "idle" =>
      \A key \in Keys :
         LET d == cache.objs[Owner].rsh_df[key]
         IN  d # 0 =>
               /\ d # Owner /\ d \in 2..Len(cache.objs)
               /\ (cache.objs[d].cderi # 0 <=> cache.built[key] >= 1)
               /\ (cache.objs[d].cderi # 0 <=> cache.objs[d].intopt # 0)
               /\ cache.objs[d].rsh_df = EmptyRshDf

\* The build of the instance of key 1 failed: the instance is in the map,
\* with nao, naux and cd_low of the failed build and no factor tensor.
C24_Witness ==
    /\ cache.pc = "run"
    /\ cache.objs[Owner].rsh_df[1] = 2
    /\ cache.objs[2].cderi = 0
    /\ cache.objs[2].nao # 0
    /\ cache.check.build = "raised"

\* A step of get_jk or _get_jk with an omega: a variant instance is looked
\* up or created, built if it has no factor tensor, and used.
VariantStep ==
    /\ cache.pc = "run"
    /\ cache' # cache
    /\ cache'.last \in {"get_jk", "_get_jk"}
    /\ cache'.check.on = "variant"

\* The objects of the heap, the owner apart, that a step changes.
ChangedVariants == {e \in 2..Len(cache.objs) : cache'.objs[e] # cache.objs[e]}

\* The keys whose entry of the owner's map a step changes.
ChangedKeys ==
    {key \in Keys : cache'.objs[Owner].rsh_df[key] # cache.objs[Owner].rsh_df[key]}

C26_NoCopyPendingAtReturn ==
    build.pc = "done" /\ build.cderi = "host" =>
      /\ build.pending = 0
      /\ \A k \in 1..Len(build.writes) : build.writes[k].tier = "host"
      /\ build.count = build.npair

\* A host-resident tensor is returned after the copies of three group
\* pairs.
C26_Witness ==
    /\ build.pc = "done"
    /\ build.cderi = "host"
    /\ Len(build.writes) = 3
    /\ build.naux > 0
    /\ build.pending = 0

(***************************************************************************)
(*               The Coulomb contraction of df_jk.get_jk                   *)
(*                                                                         *)
(* jk.dms is one symmetric density matrix, jk.cderi_sparse one row of a    *)
(* packed block of the factor tensor.  The entries of dm_sparse are kept   *)
(* doubled (jk.dm_sparse2 = 2 * dm_sparse), so that the halved diagonal    *)
(* entries stay integers.                                                  *)
(***************************************************************************)
MaxJkNao == 2

BlockVals == {0, 1}

\* intopt.cderi_row, cderi_col and cderi_diag: the pair index and its
\* diagonal subset (positions counted from 0).
CderiIndex(n) == [row |-> TrilRow(n), col |-> TrilCol(n), diag |-> DiagIdx(n)]

\* df_jk.py lines 271-272: dm_sparse = dms[:, rows, cols] with the entries
\* at cderi_diag multiplied by 0.5; the result doubled.
DmSparse2Unweighted(dms, idx) ==
    [k \in 1..Len(idx.row) |-> 2 * Gather(dms, idx.row, idx.col)[k]]

DmSparse2(dms, idx) ==
    [k \in 1..Len(idx.row) |->
        IF \E i \in 1..Len(idx.diag) : idx.diag[i] = k - 1
        THEN Gather(dms, idx.row, idx.col)[k]
        ELSE 2 * Gather(dms, idx.row, idx.col)[k]]

\* df_jk.py line 289: rhoj = 2.0 * dm_sparse.dot(cderi_sparse), for one row
\* of the block.
RhoJ(dm_sparse2, cderi_sparse) ==
    SumSeq([k \in 1..Len(dm_sparse2) |-> dm_sparse2[k] * cderi_sparse[k]])

InitJk ==
    /\ \E n \in 1..MaxJkNao : \E D \in SymMats(n) :
         \E B \in [1..Len(TrilPairs(n)) -> BlockVals] :
            jk = [pc |-> "start", nao |-> n, dms |-> D, cderi_sparse |-> B,
                  rows |-> <<>>, cols |-> <<>>, dm_sparse2 |-> <<>>, rhoj |-> 0]
    /\ loop = IdleLoop /\ cache = IdleCache /\ build = IdleBuild
    /\ pair = IdlePair /\ blk = IdleBlk /\ wf = IdleWf /\ sr = IdleSr

\* df_jk.get_jk lines 268-273.
JkDmSparse ==
    /\ jk.pc = "start"
    /\ LET idx == CderiIndex(jk.nao)
       IN  jk' = [jk EXCEPT !.pc = "sparse", !.rows = idx.row, !.cols = idx.col,
                            !.dm_sparse2 = DmSparse2(jk.dms, idx)]
    /\ UNCHANGED <<loop, cache, build, pair, blk, wf, sr>>

\* df_jk.get_jk line 289, for the block row the loop of line 286 yields.
JkRhoj ==
    /\ jk.pc = "sparse"
    /\ jk' = [jk EXCEPT !.pc = "contracted",
                        !.rhoj = RhoJ(jk.dm_sparse2, jk.cderi_sparse)]
    /\ UNCHANGED <<loop, cache, build, pair, blk, wf, sr>>

NextJk == JkDmSparse \/ JkRhoj

SpecJk == InitJk /\ [][NextJk]_vars

\* sum_{i,j} D[i, j] * F[i, j] over the full n x n matrices.
FullContraction(D, F, n) ==
    SumSeq([i \in 1..n |-> SumSeq([j \in 1..n |-> D[i - 1][j - 1] * F[i - 1][j - 1]])])

(***************************************************************************)
(* C27: for every symmetric density matrix D and every packed block row B  *)
(* with unpacked form Bfull, the contraction of get_jk over the packed     *)
(* pairs with half-weighted diagonal, 2 * sum_k w_k D[row_k, col_k] B[k],  *)
(* equals the contraction over the full matrices,                          *)
(* sum_{i,j} D[i, j] Bfull[i, j].                                          *)
(***************************************************************************)
C27_PackedContractionIsFull ==
    jk.pc = "contracted" =>
      jk.rhoj = FullContraction(jk.dms,
                                Unpack(jk.nao, jk.rows, jk.cols, jk.cderi_sparse),
                                jk.nao)

\* A 2 x 2 density with diagonal 1, 1 and off-diagonal 2 against a block
\* row of ones: 1 + 2 * 2 + 1.
C27_Witness ==
    /\ jk.pc = "contracted"
    /\ jk.nao = 2
    /\ jk.dms[0][0] = 1 /\ jk.dms[1][0] = 2 /\ jk.dms[1][1] = 1
    /\ jk.cderi_sparse = <<1, 1, 1>>
    /\ jk.rhoj = 6

(***************************************************************************)
(*                        df_jk.init_workflow                              *)
(*                                                                         *)
(* wf.pc is the position of the main thread, wf.bg that of the thread that *)
(* lib.call_in_background starts for build_df.  wf.numint says whether mf  *)
(* is a DFT object, wf.rsh whether its functional has abs(omega) > 1e-10.  *)
(* A field of with_df or of the variant instance is "None", "partial"      *)
(* (nao, cd_low and naux assigned, _cderi not yet) or "built".             *)
(* wf.overlap counts the steps the main thread took while a build was      *)
(* running.                                                                *)
(***************************************************************************)
MaxOverlap == 3

\* The exit of `with lib.call_in_background(build_df)`, df_jk.py line 56:
\* the thread is joined, so the block is left once build_df has ended.
JoinedNoWait(bg) == TRUE

Joined(bg) == bg \in {"finished", "failed"}

Running(bg) == bg \in {"df_build", "df_cderi", "rsh_build", "rsh_cderi"}

InitWf ==
    /\ \E numint \in BOOLEAN, rsh \in BOOLEAN :
         wf = [pc |-> "start", bg |-> "none", numint |-> numint, rsh |-> rsh,
               with_df |-> "None", rsh_df |-> "absent", s1e |-> FALSE, h1e |-> FALSE,
               grids |-> FALSE, overlap |-> 0]
    /\ loop = IdleLoop /\ cache = IdleCache /\ build = IdleBuild
    /\ pair = IdlePair /\ blk = IdleBlk /\ jk = IdleJk /\ sr = IdleSr

\* lines 56-57: build() starts build_df on the background thread.
WfStart ==
    /\ wf.pc = "start"
    /\ wf' = [wf EXCEPT !.pc = "ovlp", !.bg = "df_build"]
    /\ UNCHANGED <<loop, cache, build, pair, blk, jk, sr>>

\* line 58 (s1e), line 59 (h1e) and lines 61-65 (the grids of a DFT
\* object) on the main thread.
WfMain ==
    /\ wf.pc \in {"ovlp", "hcore", "grids"}
    /\ wf' = [wf EXCEPT
                !.pc = IF wf.pc = "ovlp" THEN "hcore"
                       ELSE IF wf.pc = "hcore" /\ wf.numint THEN "grids"
                       ELSE "exit",
                !.s1e = TRUE,
                !.h1e = @ \/ wf.pc = "hcore",
                !.grids = @ \/ wf.pc = "grids",
                !.overlap = IF Running(wf.bg) THEN Min(@ + 1, MaxOverlap) ELSE @]
    /\ UNCHANGED <<loop, cache, build, pair, blk, jk, sr>>

\* build_df line 43, mf.with_df.build(): DF.build assigns nao, cd_low and
\* naux (df.py lines 58-99), then _cderi and intopt (lines 102-104); ok says
\* whether the step returns or raises.
WfBuildDf(ok) ==
    /\ wf.bg \in {"df_build", "df_cderi"}
    /\ wf' = IF ~ok THEN [wf EXCEPT !.bg = "failed"]
             ELSE IF wf.bg = "df_build"
             THEN [wf EXCEPT !.bg = "df_cderi", !.with_df = "partial"]
             ELSE [wf EXCEPT !.with_df = "built",
                             !.bg = IF wf.numint /\ wf.rsh THEN "rsh_build"
                                    ELSE "finished",
                             !.rsh_df = IF wf.numint /\ wf.rsh THEN "None" ELSE @]
    /\ UNCHANGED <<loop, cache, build, pair, blk, jk, sr>>

\* build_df lines 44-52: the variant instance of the functional's omega is
\* put into _rsh_df (when WfBuildDf ends) and built.
WfBuildRsh(ok) ==
    /\ wf.bg \in {"rsh_build", "rsh_cderi"}
    /\ wf' = IF ~ok THEN [wf EXCEPT !.bg = "failed"]
             ELSE IF wf.bg = "rsh_build"
             THEN [wf EXCEPT !.bg = "rsh_cderi", !.rsh_df = "partial"]
             ELSE [wf EXCEPT !.bg = "finished", !.rsh_df = "built"]
    /\ UNCHANGED <<loop, cache, build, pair, blk, jk, sr>>

\* The end of the with block and lines 66-67: the thread is joined; an
\* exception of build_df is raised again by the join, else init_workflow
\* returns.
WfExit ==
    /\ wf.pc = "exit"
    /\ Joined(wf.bg)
    /\ wf' = [wf EXCEPT !.pc = IF wf.bg = "failed" THEN "raised" ELSE "returned"]
    /\ UNCHANGED <<loop, cache, build, pair, blk, jk, sr>>

NextWf ==
    \/ WfStart
    \/ WfMain
    \/ \E ok \in BOOLEAN : WfBuildDf(ok)
    \/ \E ok \in BOOLEAN : WfBuildRsh(ok)
    \/ WfExit

SpecWf == InitWf /\ [][NextWf]_vars

(***************************************************************************)
(* C28: init_workflow runs the DF build, and the variant build when the    *)
(* functional is range-separated, on a background thread while the main    *)
(* thread sets up the overlap, the core Hamiltonian and the grids; in      *)
(* every interleaving the background build has ended when init_workflow    *)
(* returns: the factor tensor of with_df is set (and the variant's, for a  *)
(* range-separated functional) and no build is running.                    *)
(***************************************************************************)
C28_BuildFinishedOnReturn ==
    wf.pc = "returned" =>
      /\ wf.bg = "finished"
      /\ ~Running(wf.bg)
      /\ wf.with_df = "built"
      /\ (wf.numint /\ wf.rsh => wf.rsh_df = "built")
      /\ wf.s1e /\ wf.h1e /\ (wf.numint => wf.grids)

\* init_workflow returned for a range-separated DFT object after the main
\* thread did its three steps while the builds were running.
C28_Witness ==
    /\ wf.pc = "returned"
    /\ wf.numint /\ wf.rsh
    /\ wf.overlap = 3
    /\ wf.rsh_df = "built"

\* A step of df_jk.get_jk whose dfobj is the owner.
OwnerJkStep ==
    /\ cache.pc = "run"
    /\ cache' # cache
    /\ cache'.last \in {"get_jk", "_get_jk"}
    /\ cache'.check.on = "owner"

\* C29 as stated, for two calls in a row: a get_jk on the owner that directly
\* follows a get_jk on the owner runs no build.
C29_FurtherGetJkReuses ==
    [][OwnerJkStep /\ cache.last \in {"get_jk", "_get_jk"} /\ cache.check.on = "owner"
         => cache'.check.build = "none" /\ cache'.nbuild = cache.nbuild]_vars

(***************************************************************************)
(* C29: df_jk.get_jk runs DF.build exactly when the object's _cderi is     *)
(* None.  A build that returns sets _cderi, so every get_jk from then to   *)
(* the next reset leaves the tensor as it is and runs no build; a build    *)
(* that raises leaves _cderi None, and the next get_jk builds again.       *)
(***************************************************************************)
C29_BuildsIffCderiUnset ==
    [][OwnerJkStep =>
         /\ (cache'.check.build # "none") <=> (cache.objs[Owner].cderi = 0)
         /\ (cache'.nbuild # cache.nbuild) <=> (cache.objs[Owner].cderi = 0)
         /\ cache.objs[Owner].cderi # 0 =>
              cache'.objs[Owner].cderi = cache.objs[Owner].cderi
         /\ cache'.check.build = "completed" =>
              cache'.objs[Owner].cderi = cache'.nbuild
         /\ cache'.check.build = "raised" => cache'.objs[Owner].cderi = 0]_vars

\* The second get_jk on the owner since the last reset found the tensor of
\* the one build that ever ran and ran none itself.
C29_Witness ==
    /\ cache.last \in {"get_jk", "_get_jk"}
    /\ cache.check.on = "owner"
    /\ cache.check.build = "none"
    /\ cache.hits[OwnerKey] = 2
    /\ cache.nbuild = 1
    /\ cache.objs[Owner].cderi = 1

(***************************************************************************)
(*          The raw block of one group pair in cholesky_eri_gpu            *)
(*                                                                         *)
(* The block has one entry per auxiliary group.  sr.full[k] is the value   *)
(* the integral evaluator gives for group k without omega, sr.lr[k] the    *)
(* value it gives with omega.  sr.omega says whether an omega was passed.  *)
(* sr.fill is how the evaluator writes into `out`: it stores the values    *)
(* ("assign") or adds them to what the buffer holds ("add").  A buffer     *)
(* that was not allocated is the empty sequence.                           *)
(***************************************************************************)
MaxSrAux == 2

MaxSrVal == 2

SrVals == 0..MaxSrVal

\* int3c2e.get_int3c2e_slice(intopt, cp_ij_id, cp_kl_id, out=buf[k0:k1]):
\* the buffer after the evaluator has written value v into slice k.
Int3c2eSlice(buf, k, v, fill) ==
    [buf EXCEPT ![k] = IF fill = "add" THEN @ + v ELSE v]

\* The value asked of the evaluator in the loops of lines 238-241 and
\* 251-254: lines 241 passes no omega, line 254 passes the caller's omega.
FirstFillValue(s, k) ==
    IF ~s.sr_only /\ s.omega THEN s.lr[k] ELSE s.full[k]

InitSr ==
    /\ \E n \in 1..MaxSrAux, sr_only \in BOOLEAN, omega \in BOOLEAN,
          fill \in {"assign", "add"} :
         \E full \in [1..n -> SrVals], lr \in [1..n -> SrVals] :
            sr = [pc |-> "start", naux |-> n, sr_only |-> sr_only, omega |-> omega,
                  fill |-> fill, full |-> full, lr |-> lr, k |-> 0,
                  ints_slices |-> <<>>, ints_slices_lr |-> <<>>, raw |-> <<>>]
    /\ loop = IdleLoop /\ cache = IdleCache /\ build = IdleBuild
    /\ pair = IdlePair /\ blk = IdleBlk /\ jk = IdleJk /\ wf = IdleWf

\* lines 237 and 250: ints_slices = cupy.zeros(...).
SrAlloc ==
    /\ sr.pc = "start"
    /\ sr' = [sr EXCEPT !.pc = "fill", !.k = 0,
                        !.ints_slices = [k \in 1..sr.naux |-> 0]]
    /\ UNCHANGED <<loop, cache, build, pair, blk, jk, wf>>

\* One turn of the loop of lines 238-241 (sr_only) or 251-254; after the
\* last, line 242 decides whether the long-range pass runs.
SrFill ==
    /\ sr.pc = "fill"
    /\ LET k == sr.k + 1
       IN  sr' = [sr EXCEPT
                    !.k = k,
                    !.ints_slices = Int3c2eSlice(@, k, FirstFillValue(sr, k), sr.fill),
                    !.pc = IF k < sr.naux THEN "fill"
                           ELSE IF sr.sr_only /\ sr.omega THEN "alloc_lr"
                           ELSE "contract"]
    /\ UNCHANGED <<loop, cache, build, pair, blk, jk, wf>>

\* line 243: ints_slices_lr = cupy.zeros(...).
SrAllocLr ==
    /\ sr.pc = "alloc_lr"
    /\ sr' = [sr EXCEPT !.pc = "fill_lr", !.k = 0,
                        !.ints_slices_lr = [k \in 1..sr.naux |-> 0]]
    /\ UNCHANGED <<loop, cache, build, pair, blk, jk, wf>>

\* One turn of the loop of lines 244-247: line 247 passes
\* out=ints_slices[k0:k1] with omega=omega, so the evaluator writes the
\* long-range values into ints_slices; ints_slices_lr is not written.
SrFillLr ==
    /\ sr.pc = "fill_lr"
    /\ LET k == sr.k + 1
       IN  sr' = [sr EXCEPT
                    !.k = k,
                    !.ints_slices = Int3c2eSlice(@, k, sr.lr[k], sr.fill),
                    !.pc = IF k < sr.naux THEN "fill_lr" ELSE "subtract"]
    /\ UNCHANGED <<loop, cache, build, pair, blk, jk, wf>>

\* line 248: ints_slices -= ints_slices_lr.
SrSubtract ==
    /\ sr.pc = "subtract"
    /\ sr' = [sr EXCEPT !.pc = "contract",
                        !.ints_slices = [k \in 1..sr.naux |-> @[k] - sr.ints_slices_lr[k]]]
    /\ UNCHANGED <<loop, cache, build, pair, blk, jk, wf>>

\* lines 256-274: the block handed to the contraction with cd_low (the
\* angular transforms and the pair selection of lines 256-267 act on the
\* two orbital axes, which this component leaves out).
SrContract ==
    /\ sr.pc = "contract"
    /\ sr' = [sr EXCEPT !.pc = "done", !.raw = sr.ints_slices]
    /\ UNCHANGED <<loop, cache, build, pair, blk, jk, wf>>

NextSr ==
    \/ SrAlloc
    \/ SrFill
    \/ SrAllocLr
    \/ SrFillLr
    \/ SrSubtract
    \/ SrContract

SpecSr == InitSr /\ [][NextSr]_vars

(***************************************************************************)
(* C30: in cholesky_eri_gpu with sr_only set and an omega given, the raw   *)
(* block contracted for a group pair is the full-range block minus the     *)
(* long-range block; the long-range values are in their own buffer and the *)
(* full-range buffer is not overwritten by them.                           *)
(***************************************************************************)
C30_RawIsFullMinusLongRange ==
    sr.pc = "done" /\ sr.sr_only /\ sr.omega =>
      /\ \A k \in 1..sr.naux : sr.raw[k] = sr.full[k] - sr.lr[k]
      /\ sr.ints_slices_lr = sr.lr

=============================================================================
